---- MODULE Spec2Model ----
(***************************************************************************)
(* Model of auto_watch_later.py: one run of main() is a sequence of        *)
(* requests to the YouTube client; every request is one step whose         *)
(* response (a page, or a raised error with some text) is chosen by the    *)
(* environment.  Texts that the code inspects with `in`, lower() or        *)
(* startswith() are sequences of one-character strings.                    *)
(***************************************************************************)
EXTENDS Integers, Sequences, FiniteSets, TLC

-----------------------------------------------------------------------------
(* Bounds of the exploration *)

\* number of runs of main() in one behaviour
MaxRuns == 2
\* number of requests that raise an error in one behaviour
MaxFaults == 2

-----------------------------------------------------------------------------
(* Python string operations *)

LowerChar(c) ==
    CASE c = "A" -> "a" [] c = "B" -> "b" [] c = "C" -> "c" [] c = "D" -> "d"
      [] c = "E" -> "e" [] c = "F" -> "f" [] c = "G" -> "g" [] c = "H" -> "h"
      [] c = "I" -> "i" [] c = "J" -> "j" [] c = "K" -> "k" [] c = "L" -> "l"
      [] c = "M" -> "m" [] c = "N" -> "n" [] c = "O" -> "o" [] c = "P" -> "p"
      [] c = "Q" -> "q" [] c = "R" -> "r" [] c = "S" -> "s" [] c = "T" -> "t"
      [] c = "U" -> "u" [] c = "V" -> "v" [] c = "W" -> "w" [] c = "X" -> "x"
      [] c = "Y" -> "y" [] c = "Z" -> "z" [] OTHER -> c

\* s.lower()
lower(s) == [i \in 1..Len(s) |-> LowerChar(s[i])]

\* sub in s
contains(sub, s) ==
    \E i \in 0..(Len(s) - Len(sub)) : SubSeq(s, i + 1, i + Len(sub)) = sub

\* s.startswith(p)
startswith(s, p) == Len(s) >= Len(p) /\ SubSeq(s, 1, Len(p)) = p

-----------------------------------------------------------------------------
(* Errors the client can raise, by name, and str(e) of each *)

ErrorNames == {"quotaExceeded", "Quota", "forbidden"}

str(e) ==
    CASE e = "quotaExceeded" ->
            <<"q","u","o","t","a","E","x","c","e","e","d","e","d">>
      [] e = "Quota" -> <<"Q","u","o","t","a"," ","l","i","m","i","t">>
      [] e = "forbidden" -> <<"f","o","r","b","i","d","d","e","n">>

\* what a request's execute() does: returns a response or raises e
Outcomes == {"ok"} \cup ErrorNames

quota == <<"q","u","o","t","a">>
quotaExceeded == <<"q","u","o","t","a","E","x","c","e","e","d","e","d">>

-----------------------------------------------------------------------------
(* Timestamps.  The checkpoint file and the publishedAfter parameters hold  *)
(* text; strftime('%Y-%m-%dT%H:%M:%SZ') writes <<"ts", t, "Z">>.            *)

\* timedelta(days=1), in clock units
OneDay == 1

strftime(t) == <<"ts", t, "Z">>

IsTimestamp(text) == Len(text) = 3 /\ text[1] = "ts"

\* datetime.fromisoformat(text.replace('Z', '+00:00')); defined on timestamps
fromisoformat(text) == text[2]

\* the whitespace a text file can hold around its content
Whitespace == {" ", "\n"}

\* text.lstrip() and text.rstrip()
RECURSIVE lstrip(_)
lstrip(text) ==
    IF text # << >> /\ Head(text) \in Whitespace THEN lstrip(Tail(text))
    ELSE text

RECURSIVE rstrip(_)
rstrip(text) ==
    IF text # << >> /\ text[Len(text)] \in Whitespace
    THEN rstrip(SubSeq(text, 1, Len(text) - 1))
    ELSE text

\* text.strip()
strip(text) == rstrip(lstrip(text))

-----------------------------------------------------------------------------
(* The remote catalog: channels, their activity feeds and videos *)

ch1 == <<"U","C","1">>
ch2 == <<"U","C","2">>

\* the pages subscriptions().list returns, in order
SubscriptionPages == << <<ch1>>, <<ch2>> >>

TitlePlain == <<"E","p","i","s","o","d","e">>
TitleTrailer == <<"N","e","w"," ","T","R","A","I","L","E","R">>

\* every video of the catalog, newest first
Videos ==
    << [id |-> "v4", channel |-> ch2, title |-> TitlePlain,
        publishedAt |-> 3, short |-> FALSE],
       [id |-> "v3", channel |-> ch2, title |-> TitleTrailer,
        publishedAt |-> 2, short |-> FALSE],
       [id |-> "v2", channel |-> ch1, title |-> TitlePlain,
        publishedAt |-> 2, short |-> TRUE],
       [id |-> "v1", channel |-> ch1, title |-> TitlePlain,
        publishedAt |-> 1, short |-> FALSE] >>

VideoIds == {Videos[n].id : n \in 1..Len(Videos)}

\* the clock is followed until the newest video of the catalog is out
LastPublishedAt == Videos[1].publishedAt

\* an upload activity of video v; a feed also holds activities of other types
UploadActivity(v) ==
    [type |-> "upload", hasUpload |-> TRUE, videoId |-> v.id,
     title |-> v.title, channelTitle |-> v.channel,
     publishedAt |-> v.publishedAt]

LikeActivity(c, t) ==
    [type |-> "like", hasUpload |-> FALSE, videoId |-> "none",
     title |-> TitlePlain, channelTitle |-> c, publishedAt |-> t]

\* an upload activity whose contentDetails hold no upload entry
UploadWithoutReference(c, t) ==
    [type |-> "upload", hasUpload |-> FALSE, videoId |-> "none",
     title |-> TitlePlain, channelTitle |-> c, publishedAt |-> t]

\* the activity feed of channel c, newest first
Feed(c) ==
    IF c = ch1 THEN << UploadActivity(Videos[3]), UploadWithoutReference(ch1, 1),
                       UploadActivity(Videos[4]) >>
    ELSE IF c = ch2 THEN << UploadActivity(Videos[1]), LikeActivity(ch2, 2),
                            UploadActivity(Videos[2]) >>
    ELSE << >>

Min(a, b) == IF a < b THEN a ELSE b

\* the first n elements of s
Take(n, s) == SubSeq(s, 1, Min(n, Len(s)))

\* activities().list(channelId=c, publishedAfter=after, maxResults=n) at time t
ActivitiesResponse(c, after, n, t) ==
    Take(n, SelectSeq(Feed(c),
         LAMBDA a : a.publishedAt > fromisoformat(after) /\ a.publishedAt <= t))

\* search().list(channelId=c, publishedAfter=after, type="video",
\*               order="date", maxResults=n) at time t
SearchResponse(c, after, n, t) ==
    Take(n, SelectSeq(Videos,
         LAMBDA v : v.channel = c /\ v.publishedAt > fromisoformat(after)
                    /\ v.publishedAt <= t))

\* the items of the Shorts playlist of a channel, newest first, at time t
ShortsPlaylist(c, t) ==
    SelectSeq(Videos, LAMBDA v : v.channel = c /\ v.short /\ v.publishedAt <= t)

\* channels that only publish Shorts
ch3 == <<"U","C","3">>
ch4 == <<"U","C","4">>
ch5 == <<"U","C","5">>
ch6 == <<"U","C","6">>

ShortsItem(id, publishedAt) == [id |-> id, publishedAt |-> publishedAt]

\* the pages playlistItems().list serves for the Shorts playlists of these
\* channels: a page can hold fewer items than were asked for, and the items
\* need not be in the order of their publish times
ShortsPages(c) ==
    IF c = ch3 THEN << <<ShortsItem("s1", 3)>>,
                       <<ShortsItem("s2", 3), ShortsItem("s3", 2)>> >>
    ELSE IF c = ch4 THEN << <<ShortsItem("s4", 3), ShortsItem("s5", 1)>>,
                            <<ShortsItem("s6", 3)>> >>
    ELSE IF c = ch5 THEN << <<ShortsItem("s7", 1), ShortsItem("s8", 3)>> >>
    ELSE IF c = ch6 THEN << <<ShortsItem("s9", 3)>>, <<ShortsItem("s10", 3)>>,
                            <<ShortsItem("s11", 3)>> >>
    ELSE << >>

-----------------------------------------------------------------------------
(* Pagination: a listing is served in pages; list_next is None after the   *)
(* last one.                                                               *)

\* items per page of playlists().list
PlaylistsPageSize == 1
\* items per page of playlistItems().list on a Shorts playlist
ShortsPageSize == 1

\* mutant of list_next: no listing has a second page
HasNextPage_never(listing, n, size) == FALSE

PageOf(listing, n, size) ==
    SubSeq(listing, (n - 1) * size + 1, Min(n * size, Len(listing)))

HasNextPage(listing, n, size) == n * size < Len(listing)

\* page n of the Shorts playlist of channel c at time t, and whether
\* list_next has a request for the page after it
ShortsPage(c, t, n) ==
    IF ShortsPages(c) # << >> THEN ShortsPages(c)[n]
    ELSE PageOf(ShortsPlaylist(c, t), n, ShortsPageSize)

ShortsHasNextPage(c, t, n) ==
    IF ShortsPages(c) # << >> THEN n < Len(ShortsPages(c))
    ELSE HasNextPage(ShortsPlaylist(c, t), n, ShortsPageSize)

-----------------------------------------------------------------------------
VARIABLES
    now,            \* the clock (UTC)
    file,           \* last_check_time.txt: [exists, text]
    playlists,      \* the user's playlists: sequence of [id, title]
    items,          \* playlist items: set of <<playlist id, video id>>
    faults,         \* requests that raised so far
    runs,           \* runs of main() started so far
    pc,             \* position of main()
    playlist_id,
    channel_ids,
    last_check_time,
    page,           \* index of the page the next paginated request fetches
    sc_i,           \* build_shorts_cache_for_channels: position in channel_ids
    shorts_video_ids,
    shorts_cache,
    max_results,    \* get_channel_shorts_video_ids: most ids to retrieve
    channel_shorts, \* what get_channel_shorts_video_ids returned, per
                    \* channel position
    i,              \* get_new_videos_with_shorts_filtering: batch offset
    j,              \* process_channel_batch: position in batch_channels
    batch_videos,
    new_videos,
    video_ids,
    k,              \* add_to_watch_later: position in video_ids
    added_count,
    already_in_playlist_count,
    channel_results,\* what get_channel_videos returned, per channel position
    inserts,        \* per video id: insert requests issued and succeeded
    log,            \* requests of the current run, in order:
                    \* <<kind, argument, outcome, time>>
    file0,          \* the checkpoint file when the current run started
    subscriptions   \* the pages of the account's subscription listing

env == <<now, file, playlists, items, faults, runs>>
resolved == <<playlist_id, channel_ids, last_check_time>>
shorts == <<sc_i, shorts_video_ids, shorts_cache, max_results, channel_shorts>>
discovery == <<i, j, batch_videos, new_videos>>
adding == <<video_ids, k, added_count, already_in_playlist_count>>
frame == <<resolved, page, shorts, discovery, adding>>
history == <<channel_results, inserts, log, file0, subscriptions>>
vars == <<env, pc, frame, history>>

NoFile == [exists |-> FALSE, text |-> << >>]

\* max_shorts_per_channel=20
max_shorts_per_channel == 20

custom_playlist_name == "Automated Watch Later"

Init ==
    /\ now = 1
    /\ file = NoFile
    /\ playlists = << [id |-> "PL1", title |-> "automated watch later",
                        privacyStatus |-> "public"] >>
    /\ items = {}
    /\ faults = 0
    /\ runs = 0
    /\ pc = "idle"
    /\ playlist_id = "none"
    /\ channel_ids = << >>
    /\ last_check_time = << >>
    /\ page = 1
    /\ sc_i = 1
    /\ shorts_video_ids = {}
    /\ shorts_cache = {}
    /\ max_results = max_shorts_per_channel
    /\ channel_shorts = << >>
    /\ i = 0
    /\ j = 1
    /\ batch_videos = << >>
    /\ new_videos = << >>
    /\ video_ids = << >>
    /\ k = 1
    /\ added_count = 0
    /\ already_in_playlist_count = 0
    /\ channel_results = << >>
    /\ inserts = [v \in VideoIds |-> [issued |-> 0, succeeded |-> 0]]
    /\ log = << >>
    /\ file0 = NoFile
    /\ subscriptions = SubscriptionPages

\* execute() of a request returns ("ok") or raises an error
Responds(r) ==
    /\ r \in Outcomes
    /\ r # "ok" => faults < MaxFaults
    /\ faults' = IF r = "ok" THEN faults ELSE faults + 1

\* the time of a request is kept for the requests whose answer depends on it
Timed(kind) == kind \in {"activities.list", "search.list"}

Logged(kind, arg, r) ==
    log' = Append(log, <<kind, arg, r, IF Timed(kind) THEN now ELSE 0>>)

-----------------------------------------------------------------------------
\* the clock advances
Tick ==
    /\ now < LastPublishedAt
    /\ now' = now + 1
    /\ UNCHANGED <<file, playlists, items, faults, runs, pc, frame, history>>

\* main() is started
main ==
    /\ pc \in {"idle", "returned", "raised"}
    /\ runs < MaxRuns
    /\ runs' = runs + 1
    /\ pc' = "check_quota"
    /\ playlist_id' = "none"
    /\ channel_ids' = << >>
    /\ last_check_time' = << >>
    /\ page' = 1
    /\ sc_i' = 1
    /\ shorts_video_ids' = {}
    /\ shorts_cache' = {}
    /\ max_results' = max_shorts_per_channel
    /\ channel_shorts' = << >>
    /\ i' = 0
    /\ j' = 1
    /\ batch_videos' = << >>
    /\ new_videos' = << >>
    /\ video_ids' = << >>
    /\ k' = 1
    /\ added_count' = 0
    /\ already_in_playlist_count' = 0
    /\ channel_results' = << >>
    /\ log' = << >>
    /\ file0' = file
    /\ UNCHANGED <<now, file, playlists, items, faults, inserts, subscriptions>>

\* mutant of check_quota_usage: True whatever the probe raises
check_quota_result_always(r) == TRUE

\* check_quota_usage: False exactly when the probe raises with "quota" in
\* str(e).lower()
check_quota_result(r) == ~(r # "ok" /\ contains(quota, lower(str(r))))

check_quota_usage ==
    /\ pc = "check_quota"
    /\ \E r \in Outcomes :
        /\ Responds(r)
        /\ Logged("channels.list", 0, r)
        /\ pc' = IF check_quota_result(r) THEN "playlists_list" ELSE "returned"
    /\ UNCHANGED <<now, file, playlists, items, runs, frame, channel_results, inserts, file0, subscriptions>>

\* mutant of the title test: the letter case is ignored
Matches_ignorecase(pg) ==
    {n \in 1..Len(pg) :
        pg[n].title \in {custom_playlist_name, "automated watch later"}}

\* positions in a page of the playlists whose title is the custom name
Matches(pg) == {n \in 1..Len(pg) : pg[n].title = custom_playlist_name}

\* create_or_get_custom_watch_later: one playlists().list page.  The call is
\* outside main's try block: an error leaves main by raising.
create_or_get_list ==
    /\ pc = "playlists_list"
    /\ \E r \in Outcomes :
        /\ Responds(r)
        /\ Logged("playlists.list", page, r)
        /\ LET pg == PageOf(playlists, page, PlaylistsPageSize) IN
           IF r # "ok"
           THEN pc' = "raised" /\ UNCHANGED <<playlist_id, page>>
           ELSE IF Matches(pg) # {}
           THEN /\ playlist_id' =
                     pg[CHOOSE n \in Matches(pg) :
                            \A m \in Matches(pg) : n <= m].id
                /\ pc' = "subscriptions"
                /\ page' = 1
           ELSE IF HasNextPage(playlists, page, PlaylistsPageSize)
           THEN pc' = pc /\ page' = page + 1 /\ UNCHANGED playlist_id
           ELSE pc' = "playlists_insert" /\ page' = 1 /\ UNCHANGED playlist_id
    /\ UNCHANGED <<now, file, playlists, items, runs, channel_ids,
                   last_check_time, shorts, discovery, adding,
                   channel_results, inserts, file0, subscriptions>>

\* create_or_get_custom_watch_later: playlists().insert of a private playlist
create_or_get_insert ==
    /\ pc = "playlists_insert"
    /\ \E r \in Outcomes :
        /\ Responds(r)
        /\ Logged("playlists.insert", 0, r)
        /\ IF r # "ok"
           THEN pc' = "raised" /\ UNCHANGED <<playlists, playlist_id>>
           ELSE /\ playlists' = Append(playlists,
                       [id |-> "PLnew", title |-> custom_playlist_name,
                        privacyStatus |-> "private"])
                /\ playlist_id' = "PLnew"
                /\ pc' = "subscriptions"
    /\ UNCHANGED <<now, file, items, runs, channel_ids, last_check_time, page,
                   shorts, discovery, adding,
                   channel_results, inserts, file0, subscriptions>>

\* get_subscriptions: one subscriptions().list page; an error is caught by
\* main's except clause, which returns
\* mutant of get_subscriptions: only the ids of the last page are kept
channel_ids_replace(ids, page_items) == page_items

\* the for loop of get_subscriptions over one page: channel_ids.append
channel_ids_append(ids, page_items) == ids \o page_items

get_subscriptions ==
    /\ pc = "subscriptions"
    /\ \E r \in Outcomes :
        /\ Responds(r)
        /\ Logged("subscriptions.list", page, r)
        /\ IF r # "ok"
           THEN pc' = "returned" /\ UNCHANGED <<channel_ids, page>>
           ELSE /\ channel_ids' =
                      channel_ids_append(channel_ids, subscriptions[page])
                /\ IF page < Len(subscriptions)
                   THEN pc' = pc /\ page' = page + 1
                   ELSE pc' = "last_check" /\ page' = 1
    /\ UNCHANGED <<now, file, playlists, items, runs, playlist_id,
                   last_check_time, shorts, discovery, adding,
                   channel_results, inserts, file0, subscriptions>>

\* mutant of get_last_check_time: the text is returned as it was read
last_check_unstripped(f, t) ==
    IF f.exists /\ f.text # << >> THEN f.text ELSE strftime(t - OneDay)

\* get_last_check_time() at time t with the file f
last_check(f, t) ==
    LET timestamp == strip(f.text) IN
    IF f.exists /\ timestamp # << >> THEN timestamp ELSE strftime(t - OneDay)

get_last_check_time ==
    /\ pc = "last_check"
    /\ last_check_time' = last_check(file, now)
    /\ pc' = "shorts"
    /\ UNCHANGED <<env, playlist_id, channel_ids, page, shorts, discovery,
                   adding, history>>

-----------------------------------------------------------------------------
(* Shorts classifier *)

None == << >>

\* mutant of get_channel_shorts_playlist_id: "UC" is looked for anywhere in
\* the identifier
get_channel_shorts_playlist_id_anywhere(channel_id) ==
    IF channel_id = << >> \/ ~contains(<<"U","C">>, channel_id)
    THEN << >>
    ELSE <<"U","U","S","H">> \o SubSeq(channel_id, 3, Len(channel_id))

get_channel_shorts_playlist_id(channel_id) ==
    IF channel_id = << >> \/ ~startswith(channel_id, <<"U","C">>)
    THEN None
    ELSE <<"U","U","S","H">> \o SubSeq(channel_id, 3, Len(channel_id))

\* mutant of process_playlist_item: an item published at the cutoff is recent
\* enough
process_playlist_item_inclusive(item, cutoff_time) ==
    IF item.publishedAt >= cutoff_time THEN item.id ELSE "None"

\* process_playlist_item: the video id, or "None" for an item that is not
\* recent enough
process_playlist_item(item, cutoff_time) ==
    IF item.publishedAt > cutoff_time THEN item.id ELSE "None"

\* the loop of fetch_playlist_page over the items of a page, from item n:
\* [ids, stop, should_continue]; stop is the early `return None`
RECURSIVE fetch_loop(_, _, _, _, _)
fetch_loop(page_items, n, cutoff_time, ids, should_continue) ==
    IF n > Len(page_items)
    THEN [ids |-> ids, stop |-> FALSE, should_continue |-> should_continue]
    ELSE LET video_id == process_playlist_item(page_items[n], cutoff_time) IN
         IF video_id # "None"
         THEN fetch_loop(page_items, n + 1, cutoff_time,
                         ids \cup {video_id}, TRUE)
         ELSE [ids |-> ids, stop |-> TRUE, should_continue |-> should_continue]

\* mutant of build_shorts_cache_for_channels: the loop ends after the first
\* channel
build_shorts_cache_first_channel ==
    /\ pc = "shorts"
    /\ IF sc_i > Min(1, Len(channel_ids))
       THEN /\ pc' = IF Len(channel_ids) = 0 THEN "save" ELSE "activities"
            /\ UNCHANGED <<sc_i, shorts_video_ids, page, channel_shorts>>
       ELSE IF \/ get_channel_shorts_playlist_id(channel_ids[sc_i]) = << >>
               \/ ~IsTimestamp(last_check_time)
       THEN /\ sc_i' = sc_i + 1
            /\ channel_shorts' = Append(channel_shorts, {})
            /\ pc' = pc
            /\ UNCHANGED <<shorts_video_ids, page>>
       ELSE /\ pc' = "shorts_page"
            /\ page' = 1
            /\ shorts_video_ids' = {}
            /\ UNCHANGED <<sc_i, channel_shorts>>
    /\ UNCHANGED <<env, resolved, shorts_cache, max_results, discovery, adding,
                   history>>

\* build_shorts_cache_for_channels: the head of the loop over channel_ids and
\* the start of get_channel_shorts_video_ids for one channel (no request yet)
build_shorts_cache_for_channels ==
    /\ pc = "shorts"
    /\ IF sc_i > Len(channel_ids)
       THEN /\ pc' = IF Len(channel_ids) = 0 THEN "save" ELSE "activities"
            /\ UNCHANGED <<sc_i, shorts_video_ids, page, channel_shorts>>
       ELSE IF \/ get_channel_shorts_playlist_id(channel_ids[sc_i]) = None
               \/ ~IsTimestamp(last_check_time)
       THEN /\ sc_i' = sc_i + 1
            /\ channel_shorts' = Append(channel_shorts, {})
            /\ pc' = pc
            /\ UNCHANGED <<shorts_video_ids, page>>
       ELSE /\ pc' = "shorts_page"
            /\ page' = 1
            /\ shorts_video_ids' = {}
            /\ UNCHANGED <<sc_i, channel_shorts>>
    /\ UNCHANGED <<env, resolved, shorts_cache, max_results, discovery, adding,
                   history>>

\* mutant of the except clause of fetch_playlist_page: the error leaves
\* fetch_playlist_page and get_channel_shorts_video_ids returns set()
fetch_playlist_page_except_reraise(e, accumulated) == {}

\* the except clause of fetch_playlist_page returns None whatever the error:
\* the while loop ends and the ids accumulated so far are returned
fetch_playlist_page_except(e, accumulated) == accumulated

\* mutant of all_shorts.update: the set is replaced
all_shorts_replace(all_shorts, ids) == ids

\* all_shorts.update(channel_shorts)
all_shorts_update(all_shorts, ids) == all_shorts \cup ids

\* fetch_playlist_page, and the end of get_channel_shorts_video_ids when the
\* while loop stops
fetch_playlist_page ==
    /\ pc = "shorts_page"
    /\ \E r \in Outcomes :
        /\ Responds(r)
        /\ Logged("shorts.list", sc_i, r)
        /\ LET got == fetch_loop(ShortsPage(channel_ids[sc_i], now, page), 1,
                                 fromisoformat(last_check_time),
                                 shorts_video_ids, FALSE)
               ids == IF r = "ok" THEN got.ids
                      ELSE fetch_playlist_page_except(r, shorts_video_ids)
               \* the request fetch_playlist_page returns is not None
               next_request ==
                       /\ r = "ok"
                       /\ ~got.stop
                       /\ got.should_continue
                       /\ Cardinality(ids) < max_results
                       /\ ShortsHasNextPage(channel_ids[sc_i], now, page)
           IN  IF next_request /\ Cardinality(ids) < max_results
               THEN /\ shorts_video_ids' = ids
                    /\ page' = page + 1
                    /\ pc' = pc
                    /\ UNCHANGED <<sc_i, shorts_cache, channel_shorts>>
               ELSE /\ shorts_cache' = all_shorts_update(shorts_cache, ids)
                    /\ channel_shorts' = Append(channel_shorts, ids)
                    /\ shorts_video_ids' = {}
                    /\ sc_i' = sc_i + 1
                    /\ page' = 1
                    /\ pc' = "shorts"
    /\ UNCHANGED <<now, file, playlists, items, runs, resolved, max_results,
                   discovery, adding, channel_results, inserts, file0, subscriptions>>

-----------------------------------------------------------------------------
(* Content filter *)

teaser == <<"t","e","a","s","e","r">>
trailer == <<"t","r","a","i","l","e","r">>

\* mutant of is_youtube_short_efficient: the cache is not consulted
is_youtube_short_efficient_never(video_id, cache) == FALSE

is_youtube_short_efficient(video_id, cache) == video_id \in cache

\* mutant of is_teaser_or_trailer: the title is not lowered
is_teaser_or_trailer_cased(video_title) ==
    contains(teaser, video_title) \/ contains(trailer, video_title)

is_teaser_or_trailer(video_title) ==
    LET title_lower == lower(video_title) IN
    contains(teaser, title_lower) \/ contains(trailer, title_lower)

\* the loop of filter_out_shorts_and_teasers from position n
RECURSIVE filter_loop(_, _, _, _)
filter_loop(video_list, cache, n, filtered_videos) ==
    IF n > Len(video_list) THEN filtered_videos
    ELSE IF is_youtube_short_efficient(video_list[n].id, cache)
    THEN filter_loop(video_list, cache, n + 1, filtered_videos)
    ELSE IF is_teaser_or_trailer(video_list[n].title)
    THEN filter_loop(video_list, cache, n + 1, filtered_videos)
    ELSE filter_loop(video_list, cache, n + 1,
                     Append(filtered_videos, video_list[n]))

\* mutants of filter_out_shorts_and_teasers: every candidate is kept; the
\* loop starts at the second candidate
filter_nothing(video_list, cache) == video_list

filter_from_second(video_list, cache) ==
    filter_loop(video_list, cache, 2, << >>)

filter_out_shorts_and_teasers(video_list, cache) ==
    filter_loop(video_list, cache, 1, << >>)

-----------------------------------------------------------------------------
(* Discovery engine *)

batch_size == 5
activities_maxResults == 10
search_maxResults == 5

\* mutant of the loop of get_videos_from_activities: every item is a
\* candidate
activities_loop_any(response, n, candidate_videos) ==
    candidate_videos \o
    [x \in 1..Len(response) |->
        [id |-> response[x].videoId, title |-> response[x].title,
         channel |-> response[x].channelTitle]]

\* the loop of get_videos_from_activities over the response items
RECURSIVE activities_loop(_, _, _)
activities_loop(response, n, candidate_videos) ==
    IF n > Len(response) THEN candidate_videos
    ELSE IF response[n].type = "upload" /\ response[n].hasUpload
    THEN activities_loop(response, n + 1,
             Append(candidate_videos,
                    [id |-> response[n].videoId, title |-> response[n].title,
                     channel |-> response[n].channelTitle]))
    ELSE activities_loop(response, n + 1, candidate_videos)

\* the loop of get_videos_from_search over the response items
RECURSIVE search_loop(_, _, _)
search_loop(response, n, candidate_videos) ==
    IF n > Len(response) THEN candidate_videos
    ELSE search_loop(response, n + 1,
             Append(candidate_videos,
                    [id |-> response[n].id, title |-> response[n].title,
                     channel |-> response[n].channel]))

\* What a function of the discovery engine hands to its caller: a list
\* (`return videos`), None (`return None`), or an exception that leaves it.
List(videos) == [kind |-> "list", videos |-> videos]
ReturnsNone == [kind |-> "None", videos |-> << >>]
Raises == [kind |-> "raise", videos |-> << >>]

\* mutants of the except clause of get_videos_from_activities: every error
\* yields the empty list; a quota error is raised again
activities_except_swallow(e) == List(<< >>)

activities_except_reraise(e) ==
    IF contains(quota, lower(str(e))) THEN Raises ELSE ReturnsNone

\* the except clause of get_videos_from_activities
activities_except(e) ==
    IF contains(quota, lower(str(e))) THEN List(<< >>) ELSE ReturnsNone

\* get_videos_from_activities(youtube, channel_id, last_check_time,
\* shorts_cache) when the request answers r at time t
activities_return(r, channel_id, after, cache, t) ==
    IF r = "ok"
    THEN List(filter_out_shorts_and_teasers(
                  activities_loop(
                      ActivitiesResponse(channel_id, after,
                                         activities_maxResults, t),
                      1, << >>),
                  cache))
    ELSE activities_except(r)

\* formatted_date of get_videos_from_search
formatted_date(text) ==
    IF IsTimestamp(text) /\ text[3] = "+00:00" THEN <<"ts", text[2], "Z">>
    ELSE text

\* mutant of the except clause of get_videos_from_search: a quota error is
\* raised again
search_except_reraise(e) ==
    IF contains(quota, lower(str(e))) THEN Raises ELSE List(<< >>)

\* the except clause of get_videos_from_search
search_except(e) == List(<< >>)

\* get_videos_from_search(youtube, channel_id, last_check_time, shorts_cache)
\* when the request answers r at time t
search_return(r, channel_id, after, cache, t) ==
    IF r = "ok"
    THEN List(filter_out_shorts_and_teasers(
                  search_loop(
                      SearchResponse(channel_id, formatted_date(after),
                                     search_maxResults, t),
                      1, << >>),
                  cache))
    ELSE search_except(r)

\* mutant of get_channel_videos: the test is `if videos_from_activities:`
fallback_needed_falsy(videos_from_activities) ==
    \/ videos_from_activities.kind = "None"
    \/ videos_from_activities.videos = << >>

\* get_channel_videos: `videos_from_activities is not None` fails
fallback_needed(videos_from_activities) == videos_from_activities.kind = "None"

\* mutant of batch_channels: the slice is one channel too long
batch_channels_overlap ==
    SubSeq(channel_ids, i + 1, Min(i + batch_size + 1, Len(channel_ids)))

batch_channels ==
    SubSeq(channel_ids, i + 1, Min(i + batch_size, Len(channel_ids)))

\* get_channel_videos returned channel_videos: process_channel_batch extends
\* its list and goes to the next channel; at the end of a batch
\* get_new_videos_with_shorts_filtering extends new_videos and goes to the
\* next batch; after the last one main goes on with the result
channel_done(channel_videos) ==
    LET batch == batch_videos \o channel_videos
        found == new_videos \o batch
    IN  /\ channel_results' = Append(channel_results, channel_videos)
        /\ IF j < Len(batch_channels)
           THEN /\ batch_videos' = batch
                /\ j' = j + 1
                /\ pc' = "activities"
                /\ UNCHANGED <<i, new_videos, video_ids>>
           ELSE /\ new_videos' = found
                /\ batch_videos' = << >>
                /\ i' = i + batch_size
                /\ j' = 1
                /\ IF i + batch_size < Len(channel_ids)
                   THEN pc' = "activities" /\ UNCHANGED video_ids
                   ELSE IF found # << >>
                   THEN /\ pc' = "add_list"
                        /\ video_ids' = [n \in 1..Len(found) |-> found[n].id]
                   ELSE pc' = "save" /\ UNCHANGED video_ids

\* an exception left the discovery engine: main's except clause prints and
\* main returns
discovery_raised ==
    /\ pc' = "returned"
    /\ UNCHANGED <<discovery, video_ids, channel_results>>

\* get_channel_videos, first half: get_videos_from_activities
get_videos_from_activities ==
    /\ pc = "activities"
    /\ \E r \in Outcomes :
        /\ Responds(r)
        /\ Logged("activities.list", i + j, r)
        /\ LET videos_from_activities ==
                   activities_return(r, batch_channels[j], last_check_time,
                                     shorts_cache, now)
           IN  IF videos_from_activities.kind = "raise"
               THEN discovery_raised
               ELSE IF fallback_needed(videos_from_activities)
               THEN /\ pc' = "search"
                    /\ UNCHANGED <<discovery, video_ids, channel_results>>
               ELSE channel_done(videos_from_activities.videos)
    /\ UNCHANGED <<now, file, playlists, items, runs, resolved, page, shorts,
                   k, added_count, already_in_playlist_count, inserts, file0, subscriptions>>

\* get_channel_videos, second half: get_videos_from_search
get_videos_from_search ==
    /\ pc = "search"
    /\ \E r \in Outcomes :
        /\ Responds(r)
        /\ Logged("search.list", i + j, r)
        /\ LET videos_from_search ==
                   search_return(r, batch_channels[j], last_check_time,
                                 shorts_cache, now)
           IN  IF videos_from_search.kind = "raise"
               THEN discovery_raised
               ELSE channel_done(videos_from_search.videos)
    /\ UNCHANGED <<now, file, playlists, items, runs, resolved, page, shorts,
                   k, added_count, already_in_playlist_count, inserts, file0, subscriptions>>

-----------------------------------------------------------------------------
(* Destination playlist *)

\* mutant of add_to_watch_later: the answer of the membership query is ignored
already_in_playlist_unchecked(pid, video_id) == FALSE

\* the membership query of add_to_watch_later answers with items
already_in_playlist(pid, video_id) == <<pid, video_id>> \in items

\* mutants of the except clause of add_to_watch_later: no error breaks the
\* loop; every error breaks it
add_except_never(e) == FALSE

add_except_always(e) == TRUE

\* the except clause of add_to_watch_later: TRUE is `break`
add_except(e) == contains(quotaExceeded, str(e))

\* the for loop of add_to_watch_later goes to the next video id, or ends
next_video ==
    /\ k' = k + 1
    /\ pc' = IF k < Len(video_ids) THEN "add_list" ELSE "save"

\* mutant of add_to_watch_later: an id found in the playlist is counted as
\* added
add_to_watch_later_list_counting ==
    /\ pc = "add_list"
    /\ \E r \in Outcomes :
        /\ Responds(r)
        /\ Logged("playlistItems.list", k, r)
        /\ IF r = "ok"
           THEN IF already_in_playlist(playlist_id, video_ids[k])
                THEN /\ already_in_playlist_count' = already_in_playlist_count + 1
                     /\ added_count' = added_count + 1
                     /\ next_video
                ELSE /\ pc' = "add_insert"
                     /\ UNCHANGED <<k, already_in_playlist_count, added_count>>
           ELSE /\ IF add_except(r)
                   THEN pc' = "save" /\ UNCHANGED k
                   ELSE next_video
                /\ UNCHANGED <<already_in_playlist_count, added_count>>
    /\ UNCHANGED <<now, file, playlists, items, runs, resolved, page, shorts,
                   discovery, video_ids, channel_results, inserts, file0, subscriptions>>

\* add_to_watch_later: the membership query for video_ids[k]
add_to_watch_later_list ==
    /\ pc = "add_list"
    /\ \E r \in Outcomes :
        /\ Responds(r)
        /\ Logged("playlistItems.list", k, r)
        /\ IF r = "ok"
           THEN IF already_in_playlist(playlist_id, video_ids[k])
                THEN /\ already_in_playlist_count' = already_in_playlist_count + 1
                     /\ next_video
                ELSE /\ pc' = "add_insert"
                     /\ UNCHANGED <<k, already_in_playlist_count>>
           ELSE /\ IF add_except(r)
                   THEN pc' = "save" /\ UNCHANGED k
                   ELSE next_video
                /\ UNCHANGED already_in_playlist_count
    /\ UNCHANGED <<now, file, playlists, items, runs, resolved, page, shorts,
                   discovery, video_ids, added_count, channel_results,
                   inserts, file0, subscriptions>>

\* add_to_watch_later: the insert of video_ids[k]
add_to_watch_later_insert ==
    /\ pc = "add_insert"
    /\ \E r \in Outcomes :
        /\ Responds(r)
        /\ Logged("playlistItems.insert", k, r)
        /\ inserts' = [inserts EXCEPT ![video_ids[k]] =
               [issued |-> @.issued + 1,
                succeeded |-> @.succeeded + (IF r = "ok" THEN 1 ELSE 0)]]
        /\ IF r = "ok"
           THEN /\ items' = items \cup {<<playlist_id, video_ids[k]>>}
                /\ added_count' = added_count + 1
                /\ next_video
           ELSE /\ IF add_except(r)
                   THEN pc' = "save" /\ UNCHANGED k
                   ELSE next_video
                /\ UNCHANGED <<items, added_count>>
    /\ UNCHANGED <<now, file, playlists, runs, resolved, page, shorts,
                   discovery, video_ids, already_in_playlist_count,
                   channel_results, file0, subscriptions>>

-----------------------------------------------------------------------------
(* Checkpoint store *)

\* mutant of save_check_time: the run goes on after the checkpoint is saved
save_check_time_goes_on ==
    /\ pc = "save"
    /\ file' = [exists |-> TRUE, text |-> strftime(now)]
    /\ pc' = "check_quota"
    /\ UNCHANGED <<now, playlists, items, faults, runs, frame, history>>

save_check_time ==
    /\ pc = "save"
    /\ file' = [exists |-> TRUE, text |-> strftime(now)]
    /\ pc' = "returned"
    /\ UNCHANGED <<now, playlists, items, faults, runs, frame, history>>

-----------------------------------------------------------------------------
Next ==
    \/ Tick
    \/ main
    \/ check_quota_usage
    \/ create_or_get_list
    \/ create_or_get_insert
    \/ get_subscriptions
    \/ get_last_check_time
    \/ build_shorts_cache_for_channels
    \/ fetch_playlist_page
    \/ get_videos_from_activities
    \/ get_videos_from_search
    \/ add_to_watch_later_list
    \/ add_to_watch_later_insert
    \/ save_check_time

Spec == Init /\ [][Next]_vars

-----------------------------------------------------------------------------
(* add_to_watch_later on its own: called again and again on one playlist   *)
(* with any list of video ids (handle_quota_exceeded_fallback passes the   *)
(* ids a user types).  pc = "save" is the return of a call; runs counts    *)
(* the calls.                                                              *)

\* calls of add_to_watch_later in one behaviour
MaxCalls == 2
\* longest list of video ids given to a call
MaxIds == 3

AddIds == {"v1", "v4"}

IdLists == UNION {[1..n -> AddIds] : n \in 1..MaxIds}

InitAdd ==
    /\ now = 1
    /\ file = NoFile
    /\ playlists = << [id |-> "PLnew", title |-> custom_playlist_name,
                        privacyStatus |-> "private"] >>
    /\ items = {}
    /\ faults = 0
    /\ runs = 1
    /\ pc = "add_list"
    /\ playlist_id = "PLnew"
    /\ channel_ids = << >>
    /\ last_check_time = << >>
    /\ page = 1
    /\ sc_i = 1
    /\ shorts_video_ids = {}
    /\ shorts_cache = {}
    /\ max_results = max_shorts_per_channel
    /\ channel_shorts = << >>
    /\ i = 0
    /\ j = 1
    /\ batch_videos = << >>
    /\ new_videos = << >>
    /\ video_ids \in IdLists
    /\ k = 1
    /\ added_count = 0
    /\ already_in_playlist_count = 0
    /\ channel_results = << >>
    /\ inserts = [v \in VideoIds |-> [issued |-> 0, succeeded |-> 0]]
    /\ log = << >>
    /\ file0 = NoFile
    /\ subscriptions = SubscriptionPages

\* the next call of add_to_watch_later, on the same playlist
add_to_watch_later ==
    /\ pc = "save"
    /\ runs < MaxCalls
    /\ runs' = runs + 1
    /\ video_ids' \in IdLists
    /\ k' = 1
    /\ added_count' = 0
    /\ already_in_playlist_count' = 0
    /\ log' = << >>
    /\ pc' = "add_list"
    /\ UNCHANGED <<now, file, playlists, items, faults, resolved, page, shorts,
                   discovery, channel_results, inserts, file0, subscriptions>>

NextAdd ==
    \/ add_to_watch_later
    \/ add_to_watch_later_list
    \/ add_to_watch_later_insert

SpecAdd == InitAdd /\ [][NextAdd]_vars

-----------------------------------------------------------------------------
(* create_or_get_custom_watch_later on its own: called again and again on  *)
(* an account that holds any few playlists.  pc = "subscriptions" is the   *)
(* return of a call, pc = "raised" an exception that left it; runs counts  *)
(* the calls.                                                              *)

\* most playlists the account holds at the start
MaxPlaylists == 3

PlaylistTitles == {custom_playlist_name, "automated watch later", "Music"}

PlaylistIds == <<"PL1", "PL2", "PL3", "PL4", "PL5">>

\* the playlists of an account: any titles, one id per position
PlaylistListings ==
    UNION {{[n \in 1..len |-> [id |-> PlaylistIds[n], title |-> titles[n],
                               privacyStatus |-> "public"]] :
               titles \in [1..len -> PlaylistTitles]} : len \in 0..MaxPlaylists}

InitPlaylist ==
    /\ now = 1
    /\ file = NoFile
    /\ playlists \in PlaylistListings
    /\ items = {}
    /\ faults = 0
    /\ runs = 1
    /\ pc = "playlists_list"
    /\ playlist_id = "none"
    /\ channel_ids = << >>
    /\ last_check_time = << >>
    /\ page = 1
    /\ sc_i = 1
    /\ shorts_video_ids = {}
    /\ shorts_cache = {}
    /\ max_results = max_shorts_per_channel
    /\ channel_shorts = << >>
    /\ i = 0
    /\ j = 1
    /\ batch_videos = << >>
    /\ new_videos = << >>
    /\ video_ids = << >>
    /\ k = 1
    /\ added_count = 0
    /\ already_in_playlist_count = 0
    /\ channel_results = << >>
    /\ inserts = [v \in VideoIds |-> [issued |-> 0, succeeded |-> 0]]
    /\ log = << >>
    /\ file0 = NoFile
    /\ subscriptions = SubscriptionPages

\* the next call of create_or_get_custom_watch_later, on the same account
create_or_get_custom_watch_later ==
    /\ pc \in {"subscriptions", "raised"}
    /\ runs < MaxCalls
    /\ runs' = runs + 1
    /\ playlist_id' = "none"
    /\ page' = 1
    /\ log' = << >>
    /\ pc' = "playlists_list"
    /\ UNCHANGED <<now, file, playlists, items, faults, channel_ids,
                   last_check_time, shorts, discovery, adding,
                   channel_results, inserts, file0, subscriptions>>

NextPlaylist ==
    \/ create_or_get_custom_watch_later
    \/ create_or_get_list
    \/ create_or_get_insert

SpecPlaylist == InitPlaylist /\ [][NextPlaylist]_vars

-----------------------------------------------------------------------------
(* The checkpoint store on its own: get_last_check_time and save_check_time *)
(* called in any order, as the tests call them, on a file that holds any    *)
(* of a few texts.  pc = "shorts" is the return of get_last_check_time,     *)
(* pc = "returned" the return of save_check_time.                           *)

\* what last_check_time.txt can hold: nothing, whitespace, a timestamp in
\* either notation with or without whitespace around it, other text
FileTexts ==
    { << >>, <<"\n">>, <<" ", "\n">>,
      <<"ts", 0, "Z">>, <<"ts", 1, "Z", "\n">>,
      <<"ts", 0, "+00:00">>, <<" ", "ts", 1, "+00:00", "\n">>,
      <<"y","e","s","t","e","r","d","a","y">>, <<"n","o","w","\n">> }

Files == {NoFile} \cup {[exists |-> TRUE, text |-> text] : text \in FileTexts}

InitCheckpoint ==
    /\ now = 1
    /\ file \in Files
    /\ playlists = << >>
    /\ items = {}
    /\ faults = 0
    /\ runs = 1
    /\ pc = "returned"
    /\ playlist_id = "none"
    /\ channel_ids = << >>
    /\ last_check_time = << >>
    /\ page = 1
    /\ sc_i = 1
    /\ shorts_video_ids = {}
    /\ shorts_cache = {}
    /\ max_results = max_shorts_per_channel
    /\ channel_shorts = << >>
    /\ i = 0
    /\ j = 1
    /\ batch_videos = << >>
    /\ new_videos = << >>
    /\ video_ids = << >>
    /\ k = 1
    /\ added_count = 0
    /\ already_in_playlist_count = 0
    /\ channel_results = << >>
    /\ inserts = [v \in VideoIds |-> [issued |-> 0, succeeded |-> 0]]
    /\ log = << >>
    /\ file0 = file
    /\ subscriptions = SubscriptionPages

\* a caller is about to call get_last_check_time
test_get_last_check_time ==
    /\ pc \in {"returned", "shorts"}
    /\ pc' = "last_check"
    /\ UNCHANGED <<env, frame, history>>

\* a caller is about to call save_check_time
test_save_check_time ==
    /\ pc \in {"returned", "shorts"}
    /\ pc' = "save"
    /\ UNCHANGED <<env, frame, history>>

NextCheckpoint ==
    \/ Tick
    \/ test_get_last_check_time
    \/ test_save_check_time
    \/ get_last_check_time
    \/ save_check_time

SpecCheckpoint == InitCheckpoint /\ [][NextCheckpoint]_vars

-----------------------------------------------------------------------------
(* filter_out_shorts_and_teasers on its own: applied to any short list of  *)
(* candidates with any cache, then to its own result.  new_videos is the   *)
(* list given to the first call, channel_results the results of the calls. *)

\* longest candidate list
MaxCandidates == 3

TitleTeaser == <<"T","e","a","s","e","r"," ","2">>

\* candidates as get_videos_from_search builds them, and one with a teaser
\* title
Candidates ==
    {[id |-> Videos[n].id, title |-> Videos[n].title,
      channel |-> Videos[n].channel] : n \in 1..Len(Videos)}
    \cup {[id |-> "v5", title |-> TitleTeaser, channel |-> ch1]}

CandidateLists == UNION {[1..n -> Candidates] : n \in 0..MaxCandidates}

Caches == SUBSET {"v2", "v4", "v5"}

InitFilter ==
    /\ now = 1
    /\ file = NoFile
    /\ playlists = << >>
    /\ items = {}
    /\ faults = 0
    /\ runs = 1
    /\ pc = "filter"
    /\ playlist_id = "none"
    /\ channel_ids = << >>
    /\ last_check_time = << >>
    /\ page = 1
    /\ sc_i = 1
    /\ shorts_video_ids = {}
    /\ shorts_cache \in Caches
    /\ max_results = max_shorts_per_channel
    /\ channel_shorts = << >>
    /\ i = 0
    /\ j = 1
    /\ batch_videos = << >>
    /\ new_videos \in CandidateLists
    /\ video_ids = << >>
    /\ k = 1
    /\ added_count = 0
    /\ already_in_playlist_count = 0
    /\ channel_results = << >>
    /\ inserts = [v \in VideoIds |-> [issued |-> 0, succeeded |-> 0]]
    /\ log = << >>
    /\ file0 = NoFile
    /\ subscriptions = SubscriptionPages

\* a call of filter_out_shorts_and_teasers: the first on new_videos, a later
\* one on the result of the call before
test_filter_out_shorts_and_teasers ==
    /\ pc = "filter"
    /\ Len(channel_results) < MaxCalls
    /\ LET video_list == IF channel_results = << >> THEN new_videos
                         ELSE channel_results[Len(channel_results)]
       IN  channel_results' =
               Append(channel_results,
                      filter_out_shorts_and_teasers(video_list, shorts_cache))
    /\ UNCHANGED <<env, pc, frame, inserts, log, file0, subscriptions>>

NextFilter == test_filter_out_shorts_and_teasers

SpecFilter == InitFilter /\ [][NextFilter]_vars

-----------------------------------------------------------------------------
(* build_shorts_cache_for_channels on its own: called with any few channel *)
(* identifiers, any checkpoint text and any max_shorts_per_channel.        *)
(* pc = "activities" is its return.                                        *)

\* most channels given to build_shorts_cache_for_channels
MaxShortsChannels == 2
\* largest max_shorts_per_channel
MaxShorts == 3

\* channel identifiers: with Shorts, without a video, and malformed
ShortsChannelIds ==
    {ch3, ch4, ch5, ch6, <<"U","C">>, <<"u","c","3">>, <<"H","U","C","3">>,
     << >>}

ShortsChannelLists ==
    UNION {[1..n -> ShortsChannelIds] : n \in 1..MaxShortsChannels}

\* published_after: timestamps, and a text fromisoformat rejects
Cutoffs == {strftime(1), strftime(2), <<"y","e","s","t","e","r","d","a","y">>}

\* a page never holds more items than the maxResults of the request
PagesFit(c, n) ==
    \A pg \in 1..Len(ShortsPages(c)) : Len(ShortsPages(c)[pg]) <= Min(n, 50)

InitShorts ==
    /\ now = LastPublishedAt
    /\ file = NoFile
    /\ playlists = << >>
    /\ items = {}
    /\ faults = 0
    /\ runs = 1
    /\ pc = "shorts"
    /\ playlist_id = "none"
    /\ channel_ids \in ShortsChannelLists
    /\ last_check_time \in Cutoffs
    /\ page = 1
    /\ sc_i = 1
    /\ shorts_video_ids = {}
    /\ shorts_cache = {}
    /\ max_results \in 1..MaxShorts
    /\ \A c \in 1..Len(channel_ids) : PagesFit(channel_ids[c], max_results)
    /\ channel_shorts = << >>
    /\ i = 0
    /\ j = 1
    /\ batch_videos = << >>
    /\ new_videos = << >>
    /\ video_ids = << >>
    /\ k = 1
    /\ added_count = 0
    /\ already_in_playlist_count = 0
    /\ channel_results = << >>
    /\ inserts = [v \in VideoIds |-> [issued |-> 0, succeeded |-> 0]]
    /\ log = << >>
    /\ file0 = NoFile
    /\ subscriptions = SubscriptionPages

NextShorts ==
    \/ build_shorts_cache_for_channels
    \/ fetch_playlist_page

SpecShorts == InitShorts /\ [][NextShorts]_vars

-----------------------------------------------------------------------------
(* get_subscriptions on its own: the account's listing is any sequence of  *)
(* one to MaxSubscriptionPages pages, a page being empty, holding one or   *)
(* two channels, or the same channel as another page.                      *)

MaxSubscriptionPages == 3

SubscriptionPageChoices ==
    {<< >>, <<ch1>>, <<ch2>>, <<ch1, ch2>>, <<ch2, ch1>>, <<ch3, ch3>>}

SubscriptionListings ==
    UNION {[1..n -> SubscriptionPageChoices] : n \in 1..MaxSubscriptionPages}

InitSubscriptions ==
    /\ now = LastPublishedAt
    /\ file = NoFile
    /\ playlists = << >>
    /\ items = {}
    /\ faults = 0
    /\ runs = 1
    /\ pc = "subscriptions"
    /\ playlist_id = "none"
    /\ channel_ids = << >>
    /\ last_check_time = << >>
    /\ page = 1
    /\ sc_i = 1
    /\ shorts_video_ids = {}
    /\ shorts_cache = {}
    /\ max_results = max_shorts_per_channel
    /\ channel_shorts = << >>
    /\ i = 0
    /\ j = 1
    /\ batch_videos = << >>
    /\ new_videos = << >>
    /\ video_ids = << >>
    /\ k = 1
    /\ added_count = 0
    /\ already_in_playlist_count = 0
    /\ channel_results = << >>
    /\ inserts = [v \in VideoIds |-> [issued |-> 0, succeeded |-> 0]]
    /\ log = << >>
    /\ file0 = NoFile
    /\ subscriptions \in SubscriptionListings

NextSubscriptions == get_subscriptions

SpecSubscriptions == InitSubscriptions /\ [][NextSubscriptions]_vars

-----------------------------------------------------------------------------
(* is_teaser_or_trailer on its own: applied to "teaser" and "trailer" in   *)
(* every mix of letter cases, to the same with one letter missing, and to  *)
(* other titles, each with and without text before and after.             *)

UpperChar(c) ==
    CASE c = "a" -> "A" [] c = "e" -> "E" [] c = "i" -> "I" [] c = "l" -> "L"
      [] c = "r" -> "R" [] c = "s" -> "S" [] c = "t" -> "T" [] OTHER -> c

\* a word in every mix of letter cases
Cased(word) ==
    {[n \in 1..Len(word) |-> IF n \in upper THEN UpperChar(word[n])
                                ELSE word[n]] : upper \in SUBSET (1..Len(word))}

\* a word with one letter missing
Misspelt(word) ==
    {SubSeq(word, 1, n - 1) \o SubSeq(word, n + 1, Len(word)) :
        n \in 1..Len(word)}

TitleCores ==
    Cased(teaser) \cup Cased(trailer) \cup Misspelt(teaser)
    \cup Misspelt(trailer) \cup {TitlePlain, << >>}

Titles ==
    {before \o core \o after :
        before \in {<< >>, <<"M","y"," ">>}, core \in TitleCores,
        after \in {<< >>, <<"!">>}}

InitTitle ==
    /\ now = 1
    /\ file = NoFile
    /\ playlists = << >>
    /\ items = {}
    /\ faults = 0
    /\ runs = 1
    /\ pc = "title"
    /\ playlist_id = "none"
    /\ channel_ids = << >>
    /\ last_check_time = << >>
    /\ page = 1
    /\ sc_i = 1
    /\ shorts_video_ids = {}
    /\ shorts_cache = {}
    /\ max_results = max_shorts_per_channel
    /\ channel_shorts = << >>
    /\ i = 0
    /\ j = 1
    /\ batch_videos = << >>
    /\ new_videos \in {<<[id |-> "v1", title |-> title, channel |-> ch1]>> :
                           title \in Titles}
    /\ video_ids = << >>
    /\ k = 1
    /\ added_count = 0
    /\ already_in_playlist_count = 0
    /\ channel_results = << >>
    /\ inserts = [v \in VideoIds |-> [issued |-> 0, succeeded |-> 0]]
    /\ log = << >>
    /\ file0 = NoFile
    /\ subscriptions = SubscriptionPages

\* a call of is_teaser_or_trailer on the title of the candidate; what it
\* returns is kept in channel_results
test_is_teaser_or_trailer ==
    /\ pc = "title"
    /\ channel_results' = <<is_teaser_or_trailer(new_videos[1].title)>>
    /\ pc' = "titled"
    /\ UNCHANGED <<env, frame, inserts, log, file0, subscriptions>>

NextTitle == test_is_teaser_or_trailer

SpecTitle == InitTitle /\ [][NextTitle]_vars

-----------------------------------------------------------------------------
(* get_new_videos_with_shorts_filtering from the moment its Shorts cache is *)
(* built, for subscription lists of any length up to some more than one    *)
(* batch.  pc = "add_list" or "save" is its return.                         *)

\* longest subscription list
MaxSubscriptions == 6

\* subscriptions: the two channels with videos are in different batches
Subscriptions ==
    <<ch3, ch1, ch4, ch5, ch6, ch2, <<"U","C","7">>, <<"U","C","8">>,
      <<"U","C","9">>, <<"U","C","1","0">>, <<"U","C","1","1">> >>

InitBatch ==
    /\ now = LastPublishedAt
    /\ file = NoFile
    /\ playlists = << >>
    /\ items = {}
    /\ faults = 0
    /\ runs = 1
    /\ pc = "shorts"
    /\ playlist_id = "PLnew"
    /\ channel_ids \in {SubSeq(Subscriptions, 1, n) : n \in 0..MaxSubscriptions}
    /\ last_check_time = strftime(0)
    /\ page = 1
    /\ sc_i = Len(channel_ids) + 1
    /\ shorts_video_ids = {}
    /\ max_results = max_shorts_per_channel
    /\ channel_shorts =
          [c \in 1..Len(channel_ids) |->
              {v.id : v \in {Videos[n] : n \in {m \in 1..Len(Videos) :
                                 /\ Videos[m].short
                                 /\ Videos[m].channel = channel_ids[c]}}}]
    /\ shorts_cache = UNION {channel_shorts[c] : c \in 1..Len(channel_ids)}
    /\ i = 0
    /\ j = 1
    /\ batch_videos = << >>
    /\ new_videos = << >>
    /\ video_ids = << >>
    /\ k = 1
    /\ added_count = 0
    /\ already_in_playlist_count = 0
    /\ channel_results = << >>
    /\ inserts = [v \in VideoIds |-> [issued |-> 0, succeeded |-> 0]]
    /\ log = << >>
    /\ file0 = NoFile
    /\ subscriptions = SubscriptionPages

NextBatch ==
    \/ build_shorts_cache_for_channels
    \/ get_videos_from_activities
    \/ get_videos_from_search

SpecBatch == InitBatch /\ [][NextBatch]_vars

-----------------------------------------------------------------------------
(* Vocabulary of the properties *)

LogIdx == 1..Len(log)

\* the errors whose text holds "quota" in any letter case
QuotaFlaggedErrors == {e \in ErrorNames : contains(quota, lower(str(e)))}

QuotaFlagged(r) == r \in QuotaFlaggedErrors

\* the errors whose text holds "quotaExceeded"
QuotaExceededErrors == {e \in ErrorNames : contains(quotaExceeded, str(e))}

QuotaExceededError(r) == r \in QuotaExceededErrors

IsDiscoveryRequest(n) == log[n][1] \in {"activities.list", "search.list"}

IsAddRequest(n) == log[n][1] \in {"playlistItems.list", "playlistItems.insert"}

\* the successful inserts of the current call of add_to_watch_later
InsertedAt == {n \in LogIdx : log[n][1] = "playlistItems.insert" /\ log[n][3] = "ok"}

\* add_to_watch_later left its loop with `break` on a quota error
AddStoppedOnQuota ==
    /\ pc \in {"save", "returned"}
    /\ log # << >>
    /\ IsAddRequest(Len(log))
    /\ QuotaExceededError(log[Len(log)][3])

RECURSIVE Flatten(_)
Flatten(lists) ==
    IF lists = << >> THEN << >> ELSE Head(lists) \o Flatten(Tail(lists))

\* the content-filtered result of the primary query of channel position c
\* answered at time t, and of the fallback query
ExpectedActivities(c, t) ==
    filter_out_shorts_and_teasers(
        activities_loop(ActivitiesResponse(channel_ids[c], last_check_time,
                                           activities_maxResults, t), 1, << >>),
        shorts_cache)

ExpectedSearch(c, t) ==
    filter_out_shorts_and_teasers(
        search_loop(SearchResponse(channel_ids[c], last_check_time,
                                   search_maxResults, t), 1, << >>),
        shorts_cache)

\* the checkpoint the file holds
CheckpointOf(f) == fromisoformat(f.text)

-----------------------------------------------------------------------------
\* C1: main overwrites the checkpoint only in a run whose discovery and append
\* finished without an error-driven early exit: after a run in which a
\* quota-flagged error hit discovery, or in which add_to_watch_later stopped
\* on a quota error with ids left, the file holds what it held before the run.
C1_CheckpointKeptOnQuota ==
    ( /\ pc = "returned"
      /\ \/ \E n \in LogIdx :
               log[n][1] = "activities.list" /\ QuotaFlagged(log[n][3])
         \/ AddStoppedOnQuota /\ k < Len(video_ids) )
    => file = file0

\* C2: after a quota-flagged error of the primary query of a channel, no
\* activities or search request is issued for a channel that comes later in
\* the subscription list.
C2_QuotaAbandonsRemainingChannels ==
    \A n, m \in LogIdx :
        ( /\ log[n][1] = "activities.list"
          /\ QuotaFlagged(log[n][3])
          /\ n < m
          /\ IsDiscoveryRequest(m) )
        => log[m][2] <= log[n][2]

\* a video the run should deliver: of a subscribed channel, no Short, no
\* teaser or trailer, published after the checkpoint the run read
Qualifying(v) ==
    /\ \E c \in 1..Len(channel_ids) : channel_ids[c] = v.channel
    /\ ~v.short
    /\ ~is_teaser_or_trailer(v.title)
    /\ IsTimestamp(last_check_time)
    /\ v.publishedAt > fromisoformat(last_check_time)
    /\ v.publishedAt <= now

\* both discovery paths of the channel of v raised
DiscoveryFailedFor(v) ==
    \E n, m \in LogIdx :
        /\ log[n][1] = "activities.list" /\ log[n][3] # "ok"
        /\ log[m][1] = "search.list" /\ log[m][3] # "ok"
        /\ log[n][2] = log[m][2]
        /\ channel_ids[log[n][2]] = v.channel

\* v was discovered and its insert raised or was never attempted
InsertMissedFor(v) ==
    /\ \E p \in 1..Len(video_ids) : video_ids[p] = v.id
    /\ \A n \in LogIdx :
          (log[n][1] = "playlistItems.insert" /\ video_ids[log[n][2]] = v.id)
          => log[n][3] # "ok"

\* C3: at-least-once delivery: when a run ends without a qualifying video in
\* the playlist because discovery failed for its channel or its insert failed
\* or was never attempted, the checkpoint after the run is not later than the
\* publish time of the video.
C3_AtLeastOnceDelivery ==
    \A x \in 1..Len(Videos) :
        ( /\ pc = "returned"
          /\ file.exists
          /\ Qualifying(Videos[x])
          /\ <<playlist_id, Videos[x].id>> \notin items
          /\ DiscoveryFailedFor(Videos[x]) \/ InsertMissedFor(Videos[x]) )
        => CheckpointOf(file) <= Videos[x].publishedAt

\* C4 (as claimed): over any sequence of add_to_watch_later calls on one
\* playlist, an insert request is issued at most once per video id.
C4_OneInsertRequestPerId == \A v \in VideoIds : inserts[v].issued <= 1

\* C4 (amended): over any sequence of add_to_watch_later calls on one
\* playlist, at most one insert succeeds per video id, an insert is requested
\* only for an id that is not in the playlist, and an id is in the playlist
\* exactly when an insert of it succeeded: a repeated id whose insert
\* succeeded is observed as present and skipped.
C4_NoInsertOfPresentId ==
    /\ \A v \in VideoIds : inserts[v].succeeded <= 1
    /\ \A v \in VideoIds :
          (<<playlist_id, v>> \in items) <=> (inserts[v].succeeded = 1)
    /\ pc = "add_insert" => <<playlist_id, video_ids[k]>> \notin items

\* a later call observed an id as present that an earlier call inserted, and
\* an id whose insert failed was requested again
C4_Witness ==
    /\ runs = 2
    /\ pc = "save"
    /\ already_in_playlist_count >= 1
    /\ \E v \in VideoIds : inserts[v].issued = 2 /\ inserts[v].succeeded = 1

\* C5: when the primary query of a channel raises an error that is not
\* quota-flagged, the fallback search is the next request, for the same
\* channel and checkpoint, and what get_channel_videos returns for the
\* channel is the content-filtered result of the fallback (the empty list
\* when the fallback raises).
C5_FallbackOnPrimaryError ==
    \A n \in LogIdx :
        ( /\ log[n][1] = "activities.list"
          /\ log[n][3] # "ok"
          /\ ~QuotaFlagged(log[n][3]) )
        => IF n = Len(log)
           THEN pc = "search" /\ i + j = log[n][2]
           ELSE /\ log[n + 1][1] = "search.list"
                /\ log[n + 1][2] = log[n][2]
                /\ Len(channel_results) >= log[n][2]
                /\ channel_results[log[n][2]] =
                      IF log[n + 1][3] = "ok"
                      THEN ExpectedSearch(log[n][2], log[n + 1][4])
                      ELSE << >>

\* the primary query raised "forbidden" and the fallback found a video
C5_Witness ==
    \E n \in LogIdx :
        /\ n < Len(log)
        /\ log[n][1] = "activities.list"
        /\ log[n][3] = "forbidden"
        /\ log[n + 1][3] = "ok"
        /\ Len(channel_results) >= log[n][2]
        /\ channel_results[log[n][2]] # << >>

\* C6: a search request directly follows a primary request of the same
\* channel that raised an error that is not quota-flagged, and no channel
\* position gets more than one primary or more than one fallback request.
C6_FallbackOnlyAfterPrimaryError ==
    /\ \A n \in LogIdx :
          log[n][1] = "search.list"
          => /\ n > 1
             /\ log[n - 1][1] = "activities.list"
             /\ log[n - 1][2] = log[n][2]
             /\ log[n - 1][3] # "ok"
             /\ ~QuotaFlagged(log[n - 1][3])
    /\ \A n, m \in LogIdx :
          (n # m /\ IsDiscoveryRequest(n) /\ log[n][1] = log[m][1])
          => log[n][2] # log[m][2]

\* a primary query answered with candidates that the content filter all
\* removed, and discovery went on without a search for that channel
C6_Witness ==
    \E n \in LogIdx :
        /\ log[n][1] = "activities.list"
        /\ log[n][3] = "ok"
        /\ ActivitiesResponse(channel_ids[log[n][2]], last_check_time,
                              activities_maxResults, log[n][4]) # << >>
        /\ Len(channel_results) >= log[n][2]
        /\ channel_results[log[n][2]] = << >>
        /\ pc = "save"

\* C7: when the fallback search of a channel raises any error, quota-flagged
\* or not, get_videos_from_search returns the empty list, nothing is raised,
\* and no further request is made for that channel.
C7_SearchFailureYieldsEmpty ==
    \A n \in LogIdx :
        (log[n][1] = "search.list" /\ log[n][3] # "ok")
        => /\ Len(channel_results) >= log[n][2]
           /\ channel_results[log[n][2]] = << >>
           /\ \A m \in LogIdx :
                 (m > n /\ IsDiscoveryRequest(m)) => log[m][2] > log[n][2]

\* the fallback raised a quota-flagged error for the first channel and the
\* second channel was still queried
C7_Witness ==
    \E n \in LogIdx :
        /\ n < Len(log)
        /\ log[n][1] = "search.list"
        /\ QuotaFlagged(log[n][3])
        /\ log[n][2] = 1
        /\ log[n + 1][1] = "activities.list"

C10_OtherErrorSkipsOneId ==
    \A n \in LogIdx :
        (IsAddRequest(n) /\ log[n][3] # "ok" /\ ~QuotaFlagged(log[n][3]))
        => /\ added_count = Cardinality(InsertedAt)
           /\ IF n < Len(log)
              THEN /\ log[n + 1][1] = "playlistItems.list"
                   /\ log[n + 1][2] = log[n][2] + 1
              ELSE \/ pc = "add_list" /\ k = log[n][2] + 1
                   \/ pc = "save" /\ log[n][2] = Len(video_ids)

\* the insert of the first id raised "forbidden" and the second id was
\* queried and inserted
C10_Witness ==
    /\ pc = "save"
    /\ Len(log) >= 4
    /\ log[2][1] = "playlistItems.insert"
    /\ log[2][3] = "forbidden"
    /\ log[3][1] = "playlistItems.list"
    /\ log[4][1] = "playlistItems.insert"
    /\ log[4][3] = "ok"
    /\ added_count = 1

-----------------------------------------------------------------------------
\* the user's playlists when the current call of
\* create_or_get_custom_watch_later started: a successful create appended one
PlaylistsAtCall ==
    IF \E n \in LogIdx : log[n][1] = "playlists.insert" /\ log[n][3] = "ok"
    THEN SubSeq(playlists, 1, Len(playlists) - 1)
    ELSE playlists

\* positions of the playlists titled exactly "Automated Watch Later"
ExactMatches ==
    {n \in 1..Len(PlaylistsAtCall) :
        PlaylistsAtCall[n].title = "Automated Watch Later"}

\* pages of a listing; an empty listing is served as one empty page
NumPages(listing) ==
    IF listing = << >> THEN 1
    ELSE (Len(listing) + PlaylistsPageSize - 1) \div PlaylistsPageSize

\* C11: when a playlist of the user is titled exactly "Automated Watch
\* Later", create_or_get_custom_watch_later issues no create call, and what
\* it returns is the id of the first such playlist in pagination order.
C11_ExistingPlaylistReturned ==
    ExactMatches # {}
    => /\ \A n \in LogIdx : log[n][1] # "playlists.insert"
       /\ pc = "subscriptions"
             => playlist_id =
                   PlaylistsAtCall[CHOOSE n \in ExactMatches :
                                      \A m \in ExactMatches : n <= m].id

\* the first playlist has the title in lower case, the second and the third
\* have the exact title, and the call returned the second after two pages
C11_Witness ==
    /\ pc = "subscriptions"
    /\ Len(playlists) = 3
    /\ playlists[1].title = "automated watch later"
    /\ ExactMatches = {2, 3}
    /\ Len(log) = 2
    /\ playlist_id = playlists[2].id

\* C12: a create call is issued only after every page of the user's
\* playlists was fetched and none held the exact title; it is the only
\* create call and the last request of the call; the playlist created is
\* private, has the title, and its id is returned.  A call that returns
\* without an exact title among the playlists has issued the create call.
C12_CreateAfterFullPagination ==
    /\ \A n \in LogIdx :
          log[n][1] = "playlists.insert"
          => /\ ExactMatches = {}
             /\ n = NumPages(PlaylistsAtCall) + 1
             /\ \A m \in 1..(n - 1) :
                   log[m][1] = "playlists.list" /\ log[m][2] = m
                   /\ log[m][3] = "ok"
             /\ n = Len(log)
             /\ log[n][3] = "ok"
                   => /\ pc = "subscriptions"
                      /\ playlist_id = playlists[Len(playlists)].id
                      /\ playlists[Len(playlists)].title = "Automated Watch Later"
                      /\ playlists[Len(playlists)].privacyStatus = "private"
                      /\ \A m \in 1..Len(PlaylistsAtCall) :
                            PlaylistsAtCall[m].id # playlist_id
    /\ (pc = "subscriptions" /\ ExactMatches = {})
          => log[Len(log)][1] = "playlists.insert"

\* three playlists without the exact title were listed page by page, then
\* the playlist was created and its id returned
C12_Witness ==
    /\ pc = "subscriptions"
    /\ Len(PlaylistsAtCall) = 3
    /\ ExactMatches = {}
    /\ Len(log) = 4
    /\ log[4][1] = "playlists.insert"
    /\ playlist_id = "PLnew"
    /\ Len(playlists) = 4

-----------------------------------------------------------------------------
\* C13 (as claimed): main never raises: whatever error the client raises in
\* whatever phase, main returns normally.
C13_MainNeverRaises == pc # "raised"

\* get_last_check_time returns in this step
LoadReturns == pc = "last_check" /\ pc' = "shorts"

\* save_check_time returns in this step
SaveReturns == pc = "save" /\ pc' = "returned"

Corrupt(f) ==
    f.exists /\ strip(f.text) # << >> /\ ~IsTimestamp(strip(f.text))

\* C15 (as claimed): when the checkpoint file holds text that is not a
\* timestamp, get_last_check_time returns the timestamp of one day before
\* now, not the text of the file.
C15_CorruptDegradesToDefault ==
    [][ (LoadReturns /\ Corrupt(file))
            => last_check_time' = strftime(now - OneDay) ]_vars

-----------------------------------------------------------------------------
\* C16: in every run, a video passed to an insert call on the destination
\* playlist is not in the Shorts cache of the run and its title is no teaser
\* or trailer title, whichever discovery path found it.
C16_NoShortOrTeaserInserted ==
    \A n \in LogIdx :
        log[n][1] = "playlistItems.insert"
        => /\ video_ids[log[n][2]] \notin shorts_cache
           /\ new_videos[log[n][2]].id = video_ids[log[n][2]]
           /\ ~is_teaser_or_trailer(new_videos[log[n][2]].title)

\* the ids of a response of activities (videoId) or search (id)
ResponseHolds(response, id) ==
    \E x \in 1..Len(response) :
        IF "videoId" \in DOMAIN response[x] THEN response[x].videoId = id
        ELSE response[x].id = id

\* the fallback search of one channel answered with a video of the Shorts
\* cache, the primary query of another with a trailer, and a video was
\* inserted
C16_Witness ==
    /\ "v2" \in shorts_cache
    /\ \E m \in LogIdx :
          /\ log[m][1] = "search.list" /\ log[m][3] = "ok"
          /\ ResponseHolds(SearchResponse(channel_ids[log[m][2]],
                  last_check_time, search_maxResults, log[m][4]), "v2")
    /\ \E m \in LogIdx :
          /\ log[m][1] = "activities.list" /\ log[m][3] = "ok"
          /\ ResponseHolds(ActivitiesResponse(channel_ids[log[m][2]],
                  last_check_time, activities_maxResults, log[m][4]), "v3")
    /\ \E n \in LogIdx :
          log[n][1] = "playlistItems.insert" /\ log[n][3] = "ok"

\* a candidate the content filter keeps
Kept(v, cache) == v.id \notin cache /\ ~is_teaser_or_trailer(v.title)

\* C17: filter_out_shorts_and_teasers returns the candidates whose id is not
\* in the cache and whose title is no teaser or trailer title, each as often
\* as it was given and in the order given.
C17_FilterIsSubsequence ==
    channel_results # << >>
    => channel_results[1] =
           SelectSeq(new_videos, LAMBDA v : Kept(v, shorts_cache))

\* of three candidates one was removed for its id, one for its title, and
\* one was kept
C17_Witness ==
    /\ Len(channel_results) >= 1
    /\ Len(new_videos) = 3
    /\ Len(channel_results[1]) = 1
    /\ \E a, b \in 1..3 :
          /\ new_videos[a].id \in shorts_cache
          /\ ~is_teaser_or_trailer(new_videos[a].title)
          /\ new_videos[b].id \notin shorts_cache
          /\ is_teaser_or_trailer(new_videos[b].title)

\* C18: filtering the result of filter_out_shorts_and_teasers again with the
\* same cache returns the same list.
C18_FilterIdempotent ==
    \A n \in 2..Len(channel_results) : channel_results[n] = channel_results[1]

\* the first call removed a candidate and kept one, and the result was
\* filtered again
C18_Witness ==
    /\ Len(channel_results) = 2
    /\ channel_results[1] # << >>
    /\ Len(channel_results[1]) < Len(new_videos)

-----------------------------------------------------------------------------
\* the requests of the current call of add_to_watch_later that raised
FailedAt == {n \in LogIdx : IsAddRequest(n) /\ log[n][3] # "ok"}

\* C19: what add_to_watch_later returns is the number of inserts that
\* succeeded during the call; an id found present, an id whose request
\* raised and an id left after a quota stop are not counted, so the count
\* together with the ids found present and the requests that raised does not
\* exceed the number of ids given.
C19_AddedCountIsSuccessfulInserts ==
    /\ added_count = Cardinality(InsertedAt)
    /\ added_count + already_in_playlist_count + Cardinality(FailedAt)
          <= Len(video_ids)

\* a call with three ids returned 1: one id was inserted, its repetition was
\* found present, and the request of the third raised
C19_Witness ==
    /\ pc = "save"
    /\ Len(video_ids) = 3
    /\ added_count = 1
    /\ already_in_playlist_count = 1
    /\ Cardinality(FailedAt) = 1

\* C20: when the probe of check_quota_usage raised a quota-flagged error,
\* main has returned with the probe as its only request and the checkpoint
\* file as it was; when the probe answered or raised another error, the run
\* goes on to resolve the playlist.
C20_QuotaProbeGate ==
    (log # << >> /\ log[1][1] = "channels.list")
    => IF QuotaFlagged(log[1][3])
       THEN pc = "returned" /\ Len(log) = 1 /\ file = file0
            /\ playlist_id = "none"
       ELSE Len(log) = 1 => pc = "playlists_list"

\* the second run was stopped by a probe error with "Quota" in its text,
\* after a first run that wrote the checkpoint
C20_Witness ==
    /\ runs = 2
    /\ log = << <<"channels.list", 0, "Quota", 0>> >>
    /\ pc = "returned"
    /\ file.exists

-----------------------------------------------------------------------------
\* the channel positions whose get_channel_shorts_video_ids call returned
ShortsDone == 1..Len(channel_shorts)

\* the page requests made for the Shorts playlist of channel position c
ShortsRequests(c) ==
    {n \in LogIdx : log[n][1] = "shorts.list" /\ log[n][2] = c}

\* the page a request asked for: requests of one channel go page by page
PageNo(n) == Cardinality({m \in ShortsRequests(log[n][2]) : m <= n})

\* the items of the Shorts playlist of channel position c: <<page, position>>
ShortsSlots(c) ==
    UNION {{<<pg, x>> : x \in 1..Len(ShortsPage(channel_ids[c], now, pg))} :
              pg \in 1..Len(ShortsPages(channel_ids[c]))}

SlotItem(c, slot) == ShortsPage(channel_ids[c], now, slot[1])[slot[2]]

\* the ids of the items of the first n pages
IdsOfPages(c, n) ==
    {SlotItem(c, slot).id : slot \in {sl \in ShortsSlots(c) : sl[1] <= n}}

\* C21 (as claimed): get_channel_shorts_video_ids returns the ids
\* accumulated from earlier pages when a page request raises a forbidden
\* error, and the empty set when a page request raises any other error.
C21_UnexpectedErrorYieldsEmpty ==
    \A c \in ShortsDone : \A n \in ShortsRequests(c) :
        log[n][3] # "ok"
        => channel_shorts[c] = IF log[n][3] = "forbidden"
                               THEN IdsOfPages(c, PageNo(n) - 1)
                               ELSE {}

\* C21 (amended): get_channel_shorts_video_ids never propagates an error:
\* when a page request raises, whatever the error, the request is the last
\* for the channel and the ids accumulated from the earlier pages are
\* returned; when published_after is no timestamp, the empty set is returned
\* without a request; and the channels after it are still processed.
C21_ErrorYieldsAccumulated ==
    /\ \A c \in ShortsDone : \A n \in ShortsRequests(c) :
          log[n][3] # "ok"
          => /\ \A m \in ShortsRequests(c) : m <= n
             /\ channel_shorts[c] = IdsOfPages(c, PageNo(n) - 1)
    /\ ~IsTimestamp(last_check_time)
          => /\ log = << >>
             /\ \A c \in ShortsDone : channel_shorts[c] = {}
    /\ pc = "activities" => Len(channel_shorts) = Len(channel_ids)

\* the second page request of a channel raised "quotaExceeded" and the id
\* of the first page was returned
C21_Witness ==
    \E c \in ShortsDone : \E n \in ShortsRequests(c) :
        /\ log[n][3] = "quotaExceeded"
        /\ PageNo(n) = 2
        /\ channel_shorts[c] # {}
        /\ channel_shorts[c] = IdsOfPages(c, 1)

C23_ShortsPlaylistId ==
    \A c \in 1..Len(channel_ids) :
        LET id == channel_ids[c] IN
        IF Len(id) >= 2 /\ id[1] = "U" /\ id[2] = "C"
        THEN get_channel_shorts_playlist_id(id) =
                <<"U","U","S","H">> \o [n \in 1..(Len(id) - 2) |-> id[n + 2]]
        ELSE /\ get_channel_shorts_playlist_id(id) = None
             /\ ShortsRequests(c) = {}
             /\ c \in ShortsDone => channel_shorts[c] = {}

\* an identifier with "UC" after its first character got no request, and the
\* channel after it was looked up
C23_Witness ==
    /\ pc = "activities"
    /\ channel_ids = << <<"H","U","C","3">>, ch3 >>
    /\ ShortsRequests(1) = {}
    /\ ShortsRequests(2) # {}
    /\ channel_shorts[1] = {}
    /\ channel_shorts[2] # {}

\* the items of channel position c published at or before the cutoff
OldSlots(c) ==
    {slot \in ShortsSlots(c) :
        SlotItem(c, slot).publishedAt <= fromisoformat(last_check_time)}

Later(a, b) == a[1] > b[1] \/ (a[1] = b[1] /\ a[2] > b[2])

\* C25: an id is accepted only when its item was published strictly after
\* the cutoff; once an item at or before the cutoff was met, no item after
\* it on the page or on a later page is accepted and no further page is
\* requested.
C25_ShortsEarlyExit ==
    IsTimestamp(last_check_time)
    => \A c \in ShortsDone :
          /\ \A slot \in ShortsSlots(c) :
                SlotItem(c, slot).id \in channel_shorts[c]
                => SlotItem(c, slot).publishedAt >
                       fromisoformat(last_check_time)
          /\ \A old \in OldSlots(c) :
                /\ Cardinality(ShortsRequests(c)) <= old[1]
                /\ \A slot \in ShortsSlots(c) :
                      Later(slot, old)
                      => SlotItem(c, slot).id \notin channel_shorts[c]

\* with the cutoff 2: of the first channel the item published at 2 was
\* rejected; of the second the first page held a newer and then an older
\* item, and its second page was not requested
C25_Witness ==
    /\ pc = "activities"
    /\ last_check_time = strftime(2)
    /\ channel_ids = <<ch3, ch4>>
    /\ channel_shorts = << {"s1", "s2"}, {"s4"} >>
    /\ Cardinality(ShortsRequests(1)) = 2
    /\ Cardinality(ShortsRequests(2)) = 1

\* C26 (as claimed): the set get_channel_shorts_video_ids returns never holds
\* more than max_results ids, whatever pages the catalog serves.
C26_AtMostMaxResults ==
    \A c \in ShortsDone : Cardinality(channel_shorts[c]) <= max_results

-----------------------------------------------------------------------------
\* the word stands in the title at some position, each letter in either case
HasWord(title, word) ==
    \E p \in 0..(Len(title) - Len(word)) :
        \A q \in 1..Len(word) :
            title[p + q] = word[q] \/ title[p + q] = UpperChar(word[q])

\* C24: is_teaser_or_trailer returns true exactly for the titles that hold
\* "teaser" or "trailer" at some position in any mix of letter cases.
C24_TeaserOrTrailer ==
    pc = "titled"
    => channel_results[1] =
           (HasWord(new_videos[1].title, teaser)
            \/ HasWord(new_videos[1].title, trailer))

\* "My tRaIlEr!" was recognised
C24_Witness ==
    /\ pc = "titled"
    /\ new_videos[1].title =
           <<"M","y"," ","t","R","a","I","l","E","r","!">>
    /\ channel_results[1] = TRUE

-----------------------------------------------------------------------------
\* discovery of the current run has begun
DiscoveryBegun ==
    \/ pc \in {"activities", "search"}
    \/ \E n \in LogIdx : IsDiscoveryRequest(n)

-----------------------------------------------------------------------------
\* the primary requests of the current run, and the request of channel c
ActivitiesAt == {n \in LogIdx : log[n][1] = "activities.list"}

ActivitiesOf(c) == CHOOSE n \in ActivitiesAt : log[n][2] = c

\* what discovering channel position c on its own yields, given how its
\* requests were answered
OneByOne(c) ==
    LET n == ActivitiesOf(c) IN
    IF log[n][3] = "ok" THEN ExpectedActivities(c, log[n][4])
    ELSE IF QuotaFlagged(log[n][3]) THEN << >>
    ELSE IF log[n + 1][3] = "ok" THEN ExpectedSearch(c, log[n + 1][4])
    ELSE << >>

\* C28: batching leaves no trace: the primary requests go through the
\* subscription list position by position, each channel once, a search
\* request only right after the primary request of its channel; and when
\* discovery has returned, every channel was visited and the result is the
\* concatenation, in subscription order, of what each channel yields on its
\* own.
C28_BatchingIsTransparent ==
    /\ \A n \in ActivitiesAt :
          log[n][2] = Cardinality({m \in ActivitiesAt : m <= n})
    /\ \A n \in LogIdx :
          log[n][1] = "search.list"
          => n > 1 /\ log[n - 1][1] = "activities.list"
             /\ log[n - 1][2] = log[n][2]
    /\ pc \in {"add_list", "save"}
          => /\ Cardinality(ActivitiesAt) = Len(channel_ids)
             /\ new_videos =
                   Flatten([c \in 1..Len(channel_ids) |-> OneByOne(c)])

\* six channels, two batches: the result holds the video of the second
\* channel and then the video of the sixth
C28_Witness ==
    /\ pc = "add_list"
    /\ Len(channel_ids) = 6
    /\ Len(new_videos) = 2
    /\ new_videos[1].id = "v1"
    /\ new_videos[2].id = "v4"

-----------------------------------------------------------------------------
\* the activities of a response that are uploads with an upload reference,
\* as candidates
UploadCandidates(response) ==
    LET uploads == SelectSeq(response,
                       LAMBDA a : a.type = "upload" /\ a.hasUpload)
    IN  [x \in 1..Len(uploads) |->
            [id |-> uploads[x].videoId, title |-> uploads[x].title,
             channel |-> uploads[x].channelTitle]]

\* the answer to the primary request at position n of the log
AnswerAt(n) ==
    ActivitiesResponse(channel_ids[log[n][2]], last_check_time,
                       activities_maxResults, log[n][4])

\* C29: when the primary query answers, the result of the channel is made
\* of the activities of type "upload" that carry an upload reference, and
\* of no other item of the answer: it is those candidates, in the order of
\* the answer, less what the content filter removes.
C29_OnlyReferencedUploads ==
    \A n \in LogIdx :
        ( /\ log[n][1] = "activities.list"
          /\ log[n][3] = "ok"
          /\ Len(channel_results) >= log[n][2] )
        => /\ channel_results[log[n][2]] =
                 SelectSeq(UploadCandidates(AnswerAt(n)),
                           LAMBDA v : Kept(v, shorts_cache))
           /\ \A x \in 1..Len(channel_results[log[n][2]]) :
                 channel_results[log[n][2]][x].id # "none"

\* the answer for the first channel held an upload without a reference and
\* the answer for the second an activity of another type; each channel's
\* result is its one referenced upload that passes the filter
C29_Witness ==
    /\ Len(channel_results) = 2
    /\ \E n, m \in LogIdx :
          /\ log[n][1] = "activities.list" /\ log[n][3] = "ok"
          /\ log[n][2] = 1
          /\ \E x \in 1..Len(AnswerAt(n)) :
                AnswerAt(n)[x].type = "upload" /\ ~AnswerAt(n)[x].hasUpload
          /\ log[m][1] = "activities.list" /\ log[m][3] = "ok"
          /\ log[m][2] = 2
          /\ \E x \in 1..Len(AnswerAt(m)) : AnswerAt(m)[x].type = "like"
    /\ Len(channel_results[1]) = 1
    /\ channel_results[1][1].id = "v1"
    /\ Len(channel_results[2]) = 1
    /\ channel_results[2][1].id = "v4"

-----------------------------------------------------------------------------
\* C30: the phases of a run come in order: the playlist is resolved before
\* the checkpoint is loaded; the checkpoint is loaded once, before any
\* Shorts, activities or search request; every membership query and insert
\* comes after the discovery of all channels; the checkpoint file is written
\* by the save step only, at most once in a run, and nothing of the run
\* follows the save.
C30_PhaseOrder ==
    /\ [](/\ last_check_time # << >> => playlist_id # "none"
          /\ (\E n \in LogIdx : IsDiscoveryRequest(n)
                                 \/ log[n][1] = "shorts.list")
               => last_check_time # << >>
          /\ \A n, m \in LogIdx :
               (IsAddRequest(n) /\ IsDiscoveryRequest(m)) => m < n
          /\ (\E n \in LogIdx : IsAddRequest(n))
               => Len(channel_results) = Len(channel_ids))
    /\ [][/\ (last_check_time' # last_check_time /\ runs' = runs)
               => pc = "last_check" /\ last_check_time = << >>
          /\ file' # file => pc = "save" /\ pc' = "returned"
          /\ pc = "returned"
               => \/ runs' = runs + 1
                  \/ UNCHANGED <<file, playlists, items, log, pc>>]_vars

\* a run resolved the playlist, loaded the checkpoint, discovered both
\* channels, inserted a video and saved the checkpoint
C30_Witness ==
    /\ pc = "returned"
    /\ file # file0
    /\ playlist_id # "none"
    /\ Len(channel_results) = 2
    /\ \E n \in LogIdx :
          log[n][1] = "playlistItems.insert" /\ log[n][3] = "ok"

-----------------------------------------------------------------------------
\* the ids of the first n pages of a listing, page after page
RECURSIVE IdsOfListing(_, _)
IdsOfListing(pages, n) ==
    IF n = 0 THEN << >> ELSE IdsOfListing(pages, n - 1) \o pages[n]

\* C31: get_subscriptions requests the pages of the listing one after the
\* other, each once, until the last page has no continuation, and returns
\* the channel ids of all the pages in page order and item order, with
\* nothing dropped, added or merged.
C31_AllSubscriptionPages ==
    /\ \A n \in LogIdx :
          log[n][1] = "subscriptions.list" /\ log[n][2] = n
    /\ pc = "subscriptions"
         => /\ Len(log) = page - 1
            /\ channel_ids = IdsOfListing(subscriptions, page - 1)
    /\ pc = "last_check"
         => /\ Len(log) = Len(subscriptions)
            /\ \A n \in LogIdx : log[n][3] = "ok"
            /\ channel_ids = IdsOfListing(subscriptions, Len(subscriptions))

\* three pages were fetched: two channels on one page, an empty page, and a
\* channel that was already on an earlier page
C31_Witness ==
    /\ pc = "last_check"
    /\ Len(subscriptions) = 3
    /\ subscriptions[1] = <<ch2, ch1>>
    /\ subscriptions[2] = << >>
    /\ subscriptions[3] = <<ch1>>
    /\ channel_ids = <<ch2, ch1, ch1>>

-----------------------------------------------------------------------------
\* the errors that check_quota_usage reports as exhausted quota and for
\* which get_videos_from_activities returns the empty list
ClassifiedAsQuota(e) ==
    /\ e \in ErrorNames
    /\ ~check_quota_result(e)
    /\ activities_except(e) = List(<< >>)

\* C32: an error that check_quota_usage and get_videos_from_activities
\* classify as a quota error, raised by a request of add_to_watch_later,
\* ends the loop: it is the last request of the call and no id is processed
\* after it.
C32_UniformQuotaClassification ==
    \A n \in LogIdx :
        (IsAddRequest(n) /\ ClassifiedAsQuota(log[n][3]))
            => /\ n = Len(log)
               /\ pc \notin {"add_list", "add_insert"}

-----------------------------------------------------------------------------
\* every request of the run so far was answered
CleanRun == \A n \in LogIdx : log[n][3] = "ok"

\* the answer to the fallback request at position n of the log
SearchAnswerAt(n) ==
    SearchResponse(channel_ids[log[n][2]], last_check_time,
                   search_maxResults, log[n][4])

\* video v was in the answer to a discovery request of the run
ReturnedInRun(v) ==
    \E n \in LogIdx :
        /\ log[n][3] = "ok"
        /\ \/ /\ log[n][1] = "activities.list"
              /\ \E x \in 1..Len(AnswerAt(n)) : AnswerAt(n)[x].videoId = v.id
           \/ /\ log[n][1] = "search.list"
              /\ \E x \in 1..Len(SearchAnswerAt(n)) :
                    SearchAnswerAt(n)[x].id = v.id

\* C33: when a run whose requests all succeeded saves the checkpoint, every
\* video of a subscribed channel that was published after the checkpoint
\* the run read, and that no query of the run returned, is published after
\* the checkpoint the run writes, so that the window of the next run holds it.
C33_NoCoverageGap ==
    [][(pc = "save" /\ pc' = "returned" /\ CleanRun)
         => \A x \in 1..Len(Videos) :
               ( /\ \E c \in 1..Len(channel_ids) :
                       channel_ids[c] = Videos[x].channel
                 /\ Videos[x].publishedAt > fromisoformat(last_check_time)
                 /\ ~ReturnedInRun(Videos[x]) )
               => Videos[x].publishedAt > CheckpointOf(file')]_vars
====
